---- MODULE Spec2Model ----
(***************************************************************************)
(* DockercfgDeletedController                                              *)
(* (pkg/serviceaccounts/controllers/deleted_dockercfg_secrets.go).         *)
(*                                                                         *)
(* The controller watches dockercfg secrets; when one is deleted it        *)
(* removes the references to it from the service account that owns it and  *)
(* deletes the token secret created to back it.  The API server (Get,      *)
(* Update, Delete of the client set) is modelled at its interface.  A      *)
(* resourceVersion is an opaque value the server compares for equality, so *)
(* the model keeps of it only whether the stored service account has been  *)
(* written since the handler read it (stale): an Update is then rejected   *)
(* with a conflict.  Other writers of the service account run concurrently *)
(* with the handler, so the handler is split at its API calls.             *)
(*                                                                         *)
(* Two smaller parts of the repository are modelled beside it, each under  *)
(* a specification of its own: the Build informer of the shared informer   *)
(* factory (pkg/controller/shared/build_informers.go, SpecInformers) and   *)
(* the Scale subresource of DeploymentConfigs                              *)
(* (pkg/deploy/registry/deployconfig/etcd/etcd.go, SpecScale).             *)
(***************************************************************************)
EXTENDS Integers, Sequences, FiniteSets, TLC

VARIABLES
    sa,              \* the stored service account "sa1"
    stale,           \* the stored account was written after the handler's last Get
    tokens,          \* names of the stored token secrets
    deleted,         \* names of the secrets that have been deleted
    queue,           \* deletion events the informer still has to deliver
    handled,         \* per secret name: how its last handled event ended
    first,           \* end state of the event just handled, when it is delivered again
    stopChan,        \* e.stopChan: 0 is nil, otherwise the channel's index
    chans,           \* per channel made by Run(): the number of close() calls
    lastCall,        \* the last call made on the controller: Run or Stop
    pc,              \* position of the handler secretDeleted
    cur,             \* dockercfgSecret, the object of the event being handled
    i,               \* the loop counter of secretDeleted
    obj,             \* serviceAccount, the fetched copy with the references removed,
                     \* while removeDockercfgSecretReference holds it for its Update
    orig,            \* the reference lists of that copy as fetched (history)
    lastErr,         \* err of the last removeDockercfgSecretReference call
    getRes,          \* result of the last Get
    delRes,          \* result of the Delete
    gets,            \* Get calls made for this event
    updates,         \* Update calls made for this event
    sleeps,          \* time.Sleep calls made for this event
    glogErrors,      \* glog.Error calls made for this event
    handledErrors,   \* utilruntime.HandleError calls made for this event
    deletes,         \* Delete calls made for this event
    lock,            \* f.lock: 0 is unlocked, otherwise the caller holding it
    informers,       \* f.informers: per informer type the informer stored, 0 is none
    heap,            \* the objects made by cache.NewSharedIndexInformer, by address
    callers,         \* per goroutine calling the Build informer: where it is
    dc,              \* the stored DeploymentConfig
    dcStale,         \* the stored config was written after the request's lookup
    req              \* the ScaleREST.Update request in flight

vars == <<sa, stale, tokens, deleted, queue, handled, first,
          stopChan, chans, lastCall,
          pc, cur, i, obj, orig, lastErr, getRes, delRes,
          gets, updates, sleeps, glogErrors, handledErrors, deletes,
          lock, informers, heap, callers, dc, dcStale, req>>

storeVars == <<sa, stale, tokens>>
envVars == <<deleted, queue, handled, first>>
superVars == <<stopChan, chans, lastCall>>
handlerVars == <<pc, cur, i, obj, orig, lastErr, getRes, delRes,
                 gets, updates, sleeps, glogErrors, handledErrors, deletes>>
controllerVars == <<storeVars, envVars, superVars, handlerVars>>
factoryVars == <<lock, informers, heap, callers>>
scaleVars == <<dc, dcStale, req>>

---------------------------------------------------------------------------
(* Bounds of the model *)

MaxUID == 2          \* service account identities handed out
MaxRuns == 2         \* stop channels made by Run()
NumCallers == 2      \* goroutines calling the Build informer
MaxCalls == 2        \* calls each of them makes
MaxReplicas == 2     \* replica counts 0..MaxReplicas
MaxRequests == 2     \* calls of ScaleREST.Update

(* Program constants *)

NumServiceAccountUpdateRetries == 10

Names == {"d1", "d2"}
TokenOf == [n \in Names |-> IF n = "d1" THEN "tok1" ELSE "tok2"]
TokenNames == {TokenOf[n] : n \in Names}
SAName == "sa1"

NoEvent == [name |-> "", isSecret |-> FALSE, hasTok |-> FALSE, token |-> "",
            saName |-> "", saUID |-> 0, again |-> FALSE]
NoObj == [uid |-> 0, secrets |-> <<>>, pull |-> <<>>]
NoLists == [secrets |-> <<>>, pull |-> <<>>]
NoFirst == [name |-> "", secrets |-> <<>>, pull |-> <<>>, tokens |-> {}, res |-> "none"]
NotHandled == [res |-> "none", uid |-> 0]

\* The factory of shared informers: its callers, the informer types it keeps.
Callers == 1..NumCallers
Types == {"Build", "Other"}
NoCall == [pc |-> "idle", call |-> "none", informer |-> 0, calls |-> 0,
           ret |-> [kind |-> "none", at |-> 0]]

\* The scale subresource: no request in flight.  deploymentConfig is the
\* fetched copy, obj what UpdatedObject returned.
NoRequest == [pc |-> "idle", n |-> 0, err |-> "none", ret |-> FALSE,
              deploymentConfig |-> [replicas |-> 0, paused |-> FALSE],
              obj |-> [fails |-> FALSE, isScale |-> FALSE, metaOK |-> FALSE,
                       replicas |-> 0]]

\* The reference lists the service account starts with: <<secrets, pull>>.
InitLists ==
    { <<<<"d1", "d2">>, <<"d1">>>>,
      <<<<"d1", "d1">>, <<"d2">>>>,
      <<<<"d2">>, <<"d2", "d1">>>> }

---------------------------------------------------------------------------
(* The pure parts of the handler *)

\* The check of the token-name annotation left out.
IsSecret(ev) == ev.isSecret

\* secretDeleted: the object is a *api.Secret carrying the token-name annotation.
IsManaged(ev) == ev.isSecret /\ ev.hasTok

\* getServiceAccount: the secret names no service account (nil, nil is returned).
NoBackref(ev) == ev.saName = "" \/ ev.saUID = 0

\* The UID check left out.
UIDMatchesAlways(saUID, uid) == TRUE

\* getServiceAccount: the UID recorded on the secret is the fetched account's UID.
UIDMatches(saUID, uid) == saUID = uid

\* The loop stopping at the first reference it drops.
RECURSIVE RemoveFirstRef(_, _)
RemoveFirstRef(refs, name) ==
    IF refs = <<>> THEN <<>>
    ELSE IF Head(refs) = name THEN Tail(refs)
    ELSE <<Head(refs)>> \o RemoveFirstRef(Tail(refs), name)

\* removeDockercfgSecretReference: the loop that copies every reference whose
\* name is not the secret's name.
RECURSIVE RemoveRefs(_, _)
RemoveRefs(refs, name) ==
    IF refs = <<>> THEN <<>>
    ELSE IF Head(refs) = name THEN RemoveRefs(Tail(refs), name)
    ELSE <<Head(refs)>> \o RemoveRefs(Tail(refs), name)

\* refs holds a reference named n.
Refers(refs, n) == \E k \in 1..Len(refs) : refs[k] = n

\* changed set whatever the lists hold.
AlwaysChanged(acct, name) == TRUE

\* changed set by the first list only.
SecretsChanged(acct, name) == Refers(acct.secrets, name)

\* removeDockercfgSecretReference: changed, set when a reference is dropped
\* from either list.
RefsChanged(acct, name) == Refers(acct.secrets, name) \/ Refers(acct.pull, name)

\* The not-found error passed on.
GetErrKept(res) == res

\* removeDockercfgSecretReference: a not-found Get is turned into a nil error.
GetErr(res) == IF res = "notfound" THEN "nil" ELSE res

\* The retry made once more than the ceiling allows.
RetryThroughLast(err, n) == err = "conflict" /\ n <= NumServiceAccountUpdateRetries

\* The retry made on every conflict, whatever the number of attempts.
RetryUnbounded(err, n) == err = "conflict"

\* The retry made on every error.
RetryOnAnyError(err, n) == err # "nil" /\ n < NumServiceAccountUpdateRetries

\* secretDeleted: the loop sleeps and goes round again.
RetryOnConflict(err, n) == err = "conflict" /\ n < NumServiceAccountUpdateRetries

\* The loop ending one round early.
LoopEndsEarly(n) == n < NumServiceAccountUpdateRetries

\* secretDeleted: the condition of the for loop.
LoopContinues(n) == n <= NumServiceAccountUpdateRetries

\* The not-found Delete error handled like any other.
DeleteErrAlwaysHandled(res) == res # "ok"

\* secretDeleted: the Delete error is passed to utilruntime.HandleError.
DeleteErrHandled(res) == res # "ok" /\ res # "notfound"

\* Run without the nil check.
RunStartsAlways(ch) == TRUE

\* Run: a stop channel is made and the informer started.
RunStarts(ch) == ch = 0

\* Stop: the stop channel is closed.
StopCloses(ch) == ch # 0

---------------------------------------------------------------------------
(* The API server, at the interface the controller uses *)

\* ServiceAccounts(ns).Get(saName): what the store answers.
StoreGet == IF sa.exists THEN "ok" ELSE "notfound"

\* An Update accepted whatever resourceVersion it carries.
StoreUpdateUnchecked == IF sa.exists THEN "ok" ELSE "notfound"

\* ServiceAccounts(ns).Update(serviceAccount): what the store answers.
StoreUpdate ==
    IF ~sa.exists THEN "notfound"
    ELSE IF stale THEN "conflict"
    ELSE "ok"

\* Secrets(ns).Delete(name): what the store answers.
StoreDelete(t) == IF t \in tokens THEN "ok" ELSE "notfound"

\* The informer started by Run() has not been told to stop.
Running == stopChan # 0 /\ chans[stopChan] = 0

InitController ==
    /\ \E l \in InitLists :
        sa = [exists |-> TRUE, uid |-> 1, secrets |-> l[1], pull |-> l[2]]
    /\ stale = FALSE
    /\ tokens = TokenNames
    /\ deleted = {}
    /\ queue = <<>>
    /\ handled = [n \in Names |-> NotHandled]
    /\ first = NoFirst
    /\ stopChan = 0
    /\ chans = <<>>
    /\ lastCall = "none"
    /\ pc = "idle"
    /\ cur = NoEvent
    /\ i = 0
    /\ obj = NoObj
    /\ orig = NoLists
    /\ lastErr = "nil"
    /\ getRes = "none"
    /\ delRes = "none"
    /\ gets = 0
    /\ updates = 0
    /\ sleeps = 0
    /\ glogErrors = 0
    /\ handledErrors = 0
    /\ deletes = 0

\* The informer factory before any call.
FactoryIdle ==
    /\ lock = 0
    /\ informers = [ty \in Types |-> 0]
    /\ heap = <<>>
    /\ callers = [c \in Callers |-> NoCall]

\* The scale subresource before any request.
ScaleIdle ==
    /\ dc = [exists |-> TRUE, replicas |-> 0, paused |-> FALSE]
    /\ dcStale = FALSE
    /\ req = NoRequest

Init == InitController /\ FactoryIdle /\ ScaleIdle

---------------------------------------------------------------------------
(* The controller's lifecycle *)

Run ==
    /\ IF RunStarts(stopChan)
       THEN /\ Len(chans) < MaxRuns
            /\ chans' = Append(chans, 0)
            /\ stopChan' = Len(chans) + 1
       ELSE UNCHANGED <<stopChan, chans>>
    /\ lastCall' = "Run"
    /\ UNCHANGED <<storeVars, envVars, handlerVars>>
    /\ UNCHANGED <<factoryVars, scaleVars>>

Stop ==
    /\ IF StopCloses(stopChan)
       THEN /\ chans' = [chans EXCEPT ![stopChan] = @ + 1]
            /\ stopChan' = 0
       ELSE UNCHANGED <<stopChan, chans>>
    /\ lastCall' = "Stop"
    /\ UNCHANGED <<storeVars, envVars, handlerVars>>
    /\ UNCHANGED <<factoryVars, scaleVars>>

---------------------------------------------------------------------------
(* secretDeleted, split at its API calls *)

\* The informer hands the next deletion event to DeleteFunc.
secretDeleted ==
    /\ pc = "idle"
    /\ Running
    /\ queue # <<>>
    /\ queue' = Tail(queue)
    /\ IF IsManaged(Head(queue))
       THEN /\ pc' = "get"
            /\ cur' = Head(queue)
            /\ i' = 1
            /\ UNCHANGED <<handled, first>>
       ELSE /\ handled' = [handled EXCEPT ![Head(queue).name] =
                              [res |-> "ignored", uid |-> 0]]
            /\ first' = NoFirst
            /\ UNCHANGED <<pc, cur, i>>
    /\ UNCHANGED <<storeVars, deleted, superVars, obj, orig, lastErr,
                   getRes, delRes, gets, updates, sleeps, glogErrors, handledErrors,
                   deletes>>
    /\ UNCHANGED <<factoryVars, scaleVars>>

\* The loop ending on an error without the call of glog.Error.
AfterAttemptSilent(err) ==
    /\ pc' = IF RetryOnConflict(err, i) THEN "sleep" ELSE "delete"
    /\ UNCHANGED glogErrors

\* What the loop of secretDeleted does with the error of one attempt.
AfterAttempt(err) ==
    IF err = "nil"
    THEN /\ pc' = "delete"
         /\ UNCHANGED glogErrors
    ELSE IF RetryOnConflict(err, i)
    THEN /\ pc' = "sleep"
         /\ UNCHANGED glogErrors
    ELSE /\ pc' = "delete"
         /\ glogErrors' = glogErrors + 1

\* removeDockercfgSecretReference up to its Update call.
removeDockercfgSecretReference_Get ==
    /\ pc = "get"
    /\ IF NoBackref(cur)
       THEN \* getServiceAccount returns nil, nil and the nil account is dereferenced
            /\ pc' = "panic"
            /\ UNCHANGED <<stale, obj, orig, lastErr, getRes, gets, glogErrors>>
       ELSE \E res \in {StoreGet, "error"} :
            /\ gets' = gets + 1
            /\ getRes' = res
            /\ IF res # "ok"
               THEN /\ lastErr' = GetErr(res)
                    /\ AfterAttempt(GetErr(res))
                    /\ UNCHANGED <<stale, obj, orig>>
               ELSE IF ~UIDMatches(cur.saUID, sa.uid)
               THEN /\ lastErr' = "uid"
                    /\ AfterAttempt("uid")
                    /\ UNCHANGED <<stale, obj, orig>>
               ELSE IF RefsChanged(sa, cur.name)
               THEN /\ orig' = [secrets |-> sa.secrets, pull |-> sa.pull]
                    /\ obj' = [uid |-> sa.uid,
                               secrets |-> RemoveRefs(sa.secrets, cur.name),
                               pull |-> RemoveRefs(sa.pull, cur.name)]
                    /\ stale' = FALSE
                    /\ pc' = "update"
                    /\ UNCHANGED <<lastErr, glogErrors>>
               ELSE /\ lastErr' = "nil"
                    /\ AfterAttempt("nil")
                    /\ UNCHANGED <<stale, obj, orig>>
    /\ UNCHANGED <<sa, tokens, envVars, superVars, cur, i, delRes, updates, sleeps,
                   handledErrors, deletes>>
    /\ UNCHANGED <<factoryVars, scaleVars>>

\* removeDockercfgSecretReference: the Update call and the return.
removeDockercfgSecretReference_Update ==
    /\ pc = "update"
    /\ \E res \in {StoreUpdate, "error"} :
        /\ updates' = updates + 1
        /\ lastErr' = IF res = "ok" THEN "nil" ELSE res
        /\ AfterAttempt(IF res = "ok" THEN "nil" ELSE res)
        /\ IF res = "ok"
           THEN sa' = [sa EXCEPT !.secrets = obj.secrets, !.pull = obj.pull]
           ELSE UNCHANGED sa
    /\ stale' = FALSE
    /\ obj' = NoObj
    /\ orig' = NoLists
    /\ UNCHANGED <<tokens, envVars, superVars, cur, i, getRes, delRes,
                   gets, sleeps, handledErrors, deletes>>
    /\ UNCHANGED <<factoryVars, scaleVars>>

\* secretDeleted: time.Sleep(wait.Jitter(...)); continue.
secretDeleted_Sleep ==
    /\ pc = "sleep"
    /\ sleeps' = sleeps + 1
    /\ i' = i + 1
    /\ pc' = IF LoopContinues(i + 1) THEN "get" ELSE "delete"
    /\ UNCHANGED <<storeVars, envVars, superVars, cur, obj, orig, lastErr, getRes, delRes,
                   gets, updates, glogErrors, handledErrors, deletes>>
    /\ UNCHANGED <<factoryVars, scaleVars>>

\* secretDeleted: remove the reference token secret.  The loop is over: its
\* locals (i, serviceAccount) and the record of its calls are dropped.
secretDeleted_Delete ==
    /\ pc = "delete"
    /\ \E res \in {StoreDelete(cur.token), "error"} :
        /\ deletes' = deletes + 1
        /\ delRes' = res
        /\ tokens' = IF res = "ok" THEN tokens \ {cur.token} ELSE tokens
        /\ handledErrors' = IF DeleteErrHandled(res) THEN handledErrors + 1
                            ELSE handledErrors
    /\ pc' = "done"
    /\ i' = 0
    /\ gets' = 0
    /\ updates' = 0
    /\ sleeps' = 0
    /\ UNCHANGED <<sa, stale, envVars, superVars, cur, obj, orig, lastErr, getRes,
                   glogErrors>>
    /\ UNCHANGED <<factoryVars, scaleVars>>

\* How a handled event ended: without a report, with the report of a UID that
\* does not match or of the last conflict, or with a failure of the store.
Result ==
    IF lastErr \in {"error", "notfound"} \/ delRes = "error" THEN "fault"
    ELSE IF lastErr = "conflict" THEN "exhausted"
    ELSE IF lastErr = "uid" THEN "mismatch"
    ELSE "clean"

\* secretDeleted returns to the informer, which may deliver the event again.
secretDeleted_Return ==
    /\ pc = "done"
    /\ handled' = [handled EXCEPT ![cur.name] =
                      IF Result = "clean"
                      THEN [res |-> "clean", uid |-> cur.saUID]
                      ELSE [res |-> "other", uid |-> 0]]
    /\ \/ /\ ~cur.again
          /\ queue' = Append(queue, [cur EXCEPT !.again = TRUE])
          /\ first' = [name |-> cur.name, secrets |-> sa.secrets, pull |-> sa.pull,
                       tokens |-> tokens, res |-> Result]
       \/ /\ first' = NoFirst
          /\ UNCHANGED queue
    /\ pc' = "idle"
    /\ cur' = NoEvent
    /\ lastErr' = "nil"
    /\ getRes' = "none"
    /\ delRes' = "none"
    /\ glogErrors' = 0
    /\ handledErrors' = 0
    /\ deletes' = 0
    /\ UNCHANGED <<storeVars, deleted, superVars, i, obj, orig, gets, updates, sleeps>>
    /\ UNCHANGED <<factoryVars, scaleVars>>

---------------------------------------------------------------------------
(* The other actors: writers of the service account and deleters of secrets *)

\* Every write by another actor moves the stored resourceVersion on, away from
\* the one the handler holds between its Get and its Update.
Disturb ==
    /\ stale' = (pc = "update")
    /\ first' = NoFirst

\* Another controller adds the reference to a live secret to the lists that
\* do not hold it yet.
AddRef ==
    /\ sa.exists
    /\ Disturb
    /\ \E n \in Names \ deleted :
        /\ ~Refers(sa.secrets, n) \/ ~Refers(sa.pull, n)
        /\ sa' = [sa EXCEPT
                    !.secrets = IF Refers(@, n) THEN @ ELSE Append(@, n),
                    !.pull = IF Refers(@, n) THEN @ ELSE Append(@, n)]
    /\ UNCHANGED <<tokens, deleted, queue, handled, superVars, pc, cur, i, obj, orig,
                   lastErr, getRes, delRes, gets, updates, sleeps, glogErrors,
                   handledErrors, deletes>>
    /\ UNCHANGED <<factoryVars, scaleVars>>

\* Another controller updates the service account without touching the lists.
Touch ==
    /\ sa.exists
    /\ Disturb
    /\ UNCHANGED <<sa, tokens, deleted, queue, handled, superVars, pc, cur, i, obj, orig,
                   lastErr, getRes, delRes, gets, updates, sleeps, glogErrors,
                   handledErrors, deletes>>
    /\ UNCHANGED <<factoryVars, scaleVars>>

\* The service account is deleted.
DeleteSA ==
    /\ sa.exists
    /\ Disturb
    /\ sa' = [sa EXCEPT !.exists = FALSE]
    /\ UNCHANGED <<tokens, deleted, queue, handled, superVars, pc, cur, i, obj, orig,
                   lastErr, getRes, delRes, gets, updates, sleeps, glogErrors,
                   handledErrors, deletes>>
    /\ UNCHANGED <<factoryVars, scaleVars>>

\* A service account of the same name is created again from the old manifest:
\* a new UID and the same reference lists.
RecreateSA ==
    /\ ~sa.exists
    /\ sa.uid < MaxUID
    /\ Disturb
    /\ sa' = [sa EXCEPT !.exists = TRUE, !.uid = @ + 1]
    /\ UNCHANGED <<tokens, deleted, queue, handled, superVars, pc, cur, i, obj, orig,
                   lastErr, getRes, delRes, gets, updates, sleeps, glogErrors,
                   handledErrors, deletes>>
    /\ UNCHANGED <<factoryVars, scaleVars>>

\* The objects a deletion event for secret n can carry: the secret with the
\* annotations it had, or something that is not a secret.
DeletedObjects(n) ==
    LET base == [name |-> n, isSecret |-> TRUE, hasTok |-> TRUE, token |-> TokenOf[n],
                 saName |-> SAName, saUID |-> 0, again |-> FALSE]
    IN  {[base EXCEPT !.saUID = u] : u \in 0..sa.uid}
        \cup {[base EXCEPT !.saName = "", !.saUID = 1]}
        \cup {[base EXCEPT !.hasTok = FALSE, !.token = "", !.saUID = 1]}
        \cup {[base EXCEPT !.isSecret = FALSE, !.hasTok = FALSE, !.token = "",
                           !.saName = ""]}

\* A live secret is deleted; the informer queues its deletion event.
DeleteSecret ==
    /\ pc = "idle"
    /\ queue = <<>>
    /\ \E n \in Names \ deleted :
        /\ deleted' = deleted \cup {n}
        /\ \E ev \in DeletedObjects(n) : queue' = Append(queue, ev)
    /\ UNCHANGED <<storeVars, handled, first, superVars, handlerVars>>
    /\ UNCHANGED <<factoryVars, scaleVars>>

---------------------------------------------------------------------------

Next ==
    \/ Run
    \/ Stop
    \/ secretDeleted
    \/ removeDockercfgSecretReference_Get
    \/ removeDockercfgSecretReference_Update
    \/ secretDeleted_Sleep
    \/ secretDeleted_Delete
    \/ secretDeleted_Return
    \/ AddRef
    \/ Touch
    \/ DeleteSA
    \/ RecreateSA
    \/ DeleteSecret

Spec == Init /\ [][Next]_vars

---------------------------------------------------------------------------
(* buildInformer: the Build informer of the shared informer factory *)

\* A lock taken whether it is held or not.
LockNotExclusive(l) == TRUE

\* f.lock.Lock(): the mutex can be taken when nobody holds it.
CanLock(l) == l = 0

\* cache.NewSharedIndexInformer: a new indexer and a new informer over it are
\* allocated; the informer is the last object of the heap.
NewSharedIndexInformer(h, ty) ==
    h \o << [kind |-> "indexer", of |-> ty, indexer |-> 0],
            [kind |-> "informer", of |-> ty, indexer |-> Len(h) + 1] >>

\* informer.GetIndexer()
GetIndexer(a) == heap[a].indexer

\* What Informer(), Indexer() and Lister() return for the informer at a.
Returned(call, a) ==
    CASE call = "Informer" -> [kind |-> "informer", at |-> a]
      [] call = "Indexer" -> [kind |-> "indexer", at |-> GetIndexer(a)]
      [] call = "Lister" -> [kind |-> "lister", at |-> GetIndexer(a)]

\* The factory as the callers find it: no Build informer yet, the informer of
\* another type stored or not.
InitInformers ==
    /\ InitController
    /\ sa.secrets = <<"d1", "d2">>
    /\ ScaleIdle
    /\ lock = 0
    /\ callers = [c \in Callers |-> NoCall]
    /\ \E other \in BOOLEAN :
        /\ heap = IF other THEN NewSharedIndexInformer(<<>>, "Other") ELSE <<>>
        /\ informers = [ty \in Types |-> IF other /\ ty = "Other" THEN 2 ELSE 0]

\* A goroutine calls Informer(), Indexer() or Lister(); the last two call
\* Informer() first.
Call(c) ==
    /\ callers[c].pc = "idle"
    /\ callers[c].calls < MaxCalls
    /\ \E m \in {"Informer", "Indexer", "Lister"} :
        callers' = [callers EXCEPT ![c].pc = "lock", ![c].call = m,
                                   ![c].informer = 0]
    /\ UNCHANGED <<lock, informers, heap>>
    /\ UNCHANGED <<controllerVars, scaleVars>>

\* Informer: f.lock.Lock()
Informer_Lock(c) ==
    /\ callers[c].pc = "lock"
    /\ CanLock(lock)
    /\ lock' = c
    /\ callers' = [callers EXCEPT ![c].pc = "lookup"]
    /\ UNCHANGED <<informers, heap>>
    /\ UNCHANGED <<controllerVars, scaleVars>>

\* Informer: informer, exists := f.informers[informerType]
Informer_Lookup(c) ==
    /\ callers[c].pc = "lookup"
    /\ callers' = IF informers["Build"] # 0
                  THEN [callers EXCEPT ![c].pc = "return",
                                       ![c].informer = informers["Build"]]
                  ELSE [callers EXCEPT ![c].pc = "new"]
    /\ UNCHANGED <<lock, informers, heap>>
    /\ UNCHANGED <<controllerVars, scaleVars>>

\* Informer: informer = cache.NewSharedIndexInformer(...)
Informer_New(c) ==
    /\ callers[c].pc = "new"
    /\ heap' = NewSharedIndexInformer(heap, "Build")
    /\ callers' = [callers EXCEPT ![c].pc = "store", ![c].informer = Len(heap')]
    /\ UNCHANGED <<lock, informers>>
    /\ UNCHANGED <<controllerVars, scaleVars>>

\* Informer: f.informers[informerType] = informer
Informer_Store(c) ==
    /\ callers[c].pc = "store"
    /\ informers' = [informers EXCEPT !["Build"] = callers[c].informer]
    /\ callers' = [callers EXCEPT ![c].pc = "return"]
    /\ UNCHANGED <<lock, heap>>
    /\ UNCHANGED <<controllerVars, scaleVars>>

\* Informer returns and its deferred f.lock.Unlock() runs; Indexer and Lister
\* go on to informer.GetIndexer().
Informer_Return(c) ==
    /\ callers[c].pc = "return"
    /\ lock' = 0
    /\ callers' = [callers EXCEPT ![c].pc = "idle",
                                  ![c].calls = @ + 1,
                                  ![c].ret = Returned(callers[c].call, callers[c].informer)]
    /\ UNCHANGED <<informers, heap>>
    /\ UNCHANGED <<controllerVars, scaleVars>>

NextInformers ==
    \E c \in Callers :
        \/ Call(c)
        \/ Informer_Lock(c)
        \/ Informer_Lookup(c)
        \/ Informer_New(c)
        \/ Informer_Store(c)
        \/ Informer_Return(c)

SpecInformers == InitInformers /\ [][NextInformers]_vars

---------------------------------------------------------------------------
(* ScaleREST.Update: the Scale subresource of a DeploymentConfig *)

\* A Scale passed on without validation.
ScaleAlwaysValid(scale) == TRUE

\* extvalidation.ValidateScale returns no error: the metadata is valid and
\* the replica count is not negative.
ScaleValid(scale) == scale.metaOK /\ scale.replicas >= 0

\* The lookup error passed on as it is.
LookupErrKept(res) == res

\* Update: every error of the lookup is answered with a not-found of the scale.
LookupErr(res) == "NotFound(scale)"

\* api.ScaleFromConfig: the Scale computed for a DeploymentConfig.
ScaleFromConfig(config) ==
    [isScale |-> TRUE, metaOK |-> TRUE, replicas |-> config.replicas]

\* What objInfo.UpdatedObject can return: an error, an object that is not a
\* Scale, or a Scale of any replica count with valid or invalid metadata.
UpdatedObjects ==
    {[fails |-> f, isScale |-> FALSE, metaOK |-> TRUE, replicas |-> 0] : f \in BOOLEAN}
    \cup {[fails |-> FALSE, isScale |-> TRUE, metaOK |-> m, replicas |-> r] :
            m \in BOOLEAN, r \in -1..MaxReplicas}

\* registry.GetDeploymentConfig: what the registry answers.
GetDeploymentConfig == IF dc.exists THEN "ok" ELSE "notfound"

\* registry.UpdateDeploymentConfig: what the registry answers.
UpdateDeploymentConfig ==
    IF ~dc.exists THEN "notfound"
    ELSE IF dcStale THEN "conflict"
    ELSE "ok"

\* The DeploymentConfigs the store can start with.
InitScale ==
    /\ InitController
    /\ sa.secrets = <<"d1", "d2">>
    /\ FactoryIdle
    /\ \E r \in 0..MaxReplicas, p \in BOOLEAN :
        dc = [exists |-> TRUE, replicas |-> r, paused |-> p]
    /\ dcStale = FALSE
    /\ req = NoRequest

\* A client calls Update on the scale subresource (again).
Update ==
    /\ req.pc \in {"idle", "done"}
    /\ req.n < MaxRequests
    /\ req' = [NoRequest EXCEPT !.pc = "get", !.n = req.n + 1]
    /\ UNCHANGED <<dc, dcStale>>
    /\ UNCHANGED <<controllerVars, factoryVars>>

\* Update: the lookup of the DeploymentConfig.
Update_Get ==
    /\ req.pc = "get"
    /\ \E res \in {GetDeploymentConfig, "error"} :
        IF res = "ok"
        THEN /\ req' = [req EXCEPT !.pc = "updated",
                                   !.deploymentConfig = [replicas |-> dc.replicas,
                                                         paused |-> dc.paused]]
             /\ dcStale' = FALSE
        ELSE /\ req' = [req EXCEPT !.pc = "done", !.err = LookupErr(res)]
             /\ UNCHANGED dcStale
    /\ UNCHANGED dc
    /\ UNCHANGED <<controllerVars, factoryVars>>

\* Update: objInfo.UpdatedObject, the type assertion, the validation and the
\* assignment of the replica count to the fetched copy.
Update_UpdatedObject ==
    /\ req.pc = "updated"
    /\ \E o \in UpdatedObjects :
        LET scale == [isScale |-> o.isScale, metaOK |-> o.metaOK, replicas |-> o.replicas]
        IN  IF o.fails
            THEN req' = [req EXCEPT !.pc = "done", !.err = "UpdatedObject", !.obj = o]
            ELSE IF ~o.isScale
            THEN req' = [req EXCEPT !.pc = "done", !.err = "BadRequest", !.obj = o]
            ELSE IF ~ScaleValid(scale)
            THEN req' = [req EXCEPT !.pc = "done", !.err = "Invalid", !.obj = o]
            ELSE req' = [req EXCEPT !.pc = "write", !.obj = o,
                                    !.deploymentConfig.replicas = scale.replicas]
    /\ UNCHANGED <<dc, dcStale>>
    /\ UNCHANGED <<controllerVars, factoryVars>>

\* Update: registry.UpdateDeploymentConfig and the return.
Update_Write ==
    /\ req.pc = "write"
    /\ \E res \in {UpdateDeploymentConfig, "error"} :
        IF res = "ok"
        THEN /\ dc' = [dc EXCEPT !.replicas = req.deploymentConfig.replicas,
                                 !.paused = req.deploymentConfig.paused]
             /\ req' = [req EXCEPT !.pc = "done", !.err = "nil", !.ret = TRUE]
        ELSE /\ req' = [req EXCEPT !.pc = "done", !.err = res]
             /\ UNCHANGED dc
    /\ dcStale' = FALSE
    /\ UNCHANGED <<controllerVars, factoryVars>>

\* Another client writes the DeploymentConfig: it pauses or resumes it, or
\* sets its replica count.
WriteConfig ==
    /\ dc.exists
    /\ \/ dc' = [dc EXCEPT !.paused = ~@]
       \/ \E r \in (0..MaxReplicas) \ {dc.replicas} : dc' = [dc EXCEPT !.replicas = r]
    /\ dcStale' = (req.pc \in {"updated", "write"})
    /\ UNCHANGED req
    /\ UNCHANGED <<controllerVars, factoryVars>>

\* The DeploymentConfig is deleted, or created again.
DeleteConfig ==
    /\ dc' = [dc EXCEPT !.exists = ~@]
    /\ dcStale' = (req.pc \in {"updated", "write"})
    /\ UNCHANGED req
    /\ UNCHANGED <<controllerVars, factoryVars>>

NextScale ==
    \/ Update
    \/ Update_Get
    \/ Update_UpdatedObject
    \/ Update_Write
    \/ WriteConfig
    \/ DeleteConfig

SpecScale == InitScale /\ [][NextScale]_vars

---------------------------------------------------------------------------
(* Properties *)

NoRefTo(n) == ~Refers(sa.secrets, n) /\ ~Refers(sa.pull, n)
BackrefHolds(ev) == ev.saName = SAName /\ sa.exists /\ ev.saUID = sa.uid
Last == NumServiceAccountUpdateRetries

\* C1: a successful Update for the deleted secret S stores, in both lists, the
\* references fetched minus every one named S, the others in their order, on
\* the account whose UID S recorded; and the Delete of S's token, unless the
\* store fails it, leaves the token absent.
C1_RepairRemovesExactlyTheSecret ==
    [][ /\ (pc = "update" /\ lastErr' = "nil" /\ updates' = updates + 1) =>
             LET Other(r) == r # cur.name
             IN  /\ sa'.secrets = SelectSeq(orig.secrets, Other)
                 /\ sa'.pull = SelectSeq(orig.pull, Other)
                 /\ ~Refers(sa'.secrets, cur.name)
                 /\ ~Refers(sa'.pull, cur.name)
                 /\ sa'.exists /\ sa'.uid = cur.saUID
        /\ (pc = "delete" /\ pc' = "done" /\ delRes' # "error") =>
             (cur.token \notin tokens' /\ deletes' = 1)
      ]_vars

\* C1 witness: the account that held secrets [d1,d2], pull [d1] after the event
\* for d1: [d2] and [], and tok1 gone.
C1_Witness ==
    /\ pc = "done" /\ cur.name = "d1" /\ ~cur.again /\ lastErr = "nil"
    /\ sa.exists /\ sa.uid = cur.saUID
    /\ sa.secrets = <<"d2">> /\ sa.pull = <<>>
    /\ delRes = "ok" /\ "tok1" \notin tokens

\* C2: an Update is only ever issued with an account whose UID is the one the
\* deleted secret recorded, and only such an account is changed; a fetched
\* account with another UID ends the repair with the stored account as it was.
C2_UIDGuard ==
    [][ /\ (updates' = updates + 1) =>
             /\ obj.uid = cur.saUID
             /\ (sa' # sa => sa.uid = cur.saUID /\ sa'.uid = sa.uid)
        /\ (pc = "get" /\ gets' = gets + 1 /\ getRes' = "ok" /\ sa.uid # cur.saUID) =>
             (pc' = "delete" /\ sa' = sa)
      ]_vars

\* C2 witness: the account was created again with UID 2 and still names the
\* secret whose event, recording UID 1, has been handled.
C2_Witness ==
    /\ pc = "done" /\ lastErr = "uid" /\ cur.saUID = 1
    /\ sa.exists /\ sa.uid = 2
    /\ Refers(sa.secrets, cur.name)

\* C3 as stated: once the reconciliations are over and the store did not fail,
\* the account a deleted secret correctly back-referenced does not name it.
C3_NoDanglingAfterAnyReconciliation ==
    (pc = "done" /\ queue = <<>> /\ Result # "fault" /\ BackrefHolds(cur))
        => NoRefTo(cur.name)

\* C3 amended: the account a deleted secret correctly back-referenced does not
\* name it once its event has been handled without a reported error, whatever
\* references to live secrets other writers added meanwhile.
C3_NoDanglingAfterCleanReconciliation ==
    /\ (pc = "done" /\ Result = "clean" /\ BackrefHolds(cur)) => NoRefTo(cur.name)
    /\ \A n \in Names :
          (handled[n].res = "clean" /\ sa.exists /\ handled[n].uid = sa.uid)
              => NoRefTo(n)

\* C3 witness: both secrets deleted, both events handled without error for the
\* account that is stored.
C3_Witness ==
    /\ pc = "idle" /\ queue = <<>> /\ sa.exists
    /\ \A n \in Names : handled[n].res = "clean" /\ handled[n].uid = sa.uid

\* C4 as stated: a second run on the same deleted secret, no writer and no
\* store failure in between or during it, leaves the lists and the tokens of
\* the first run and reports no error.
C4_SecondRunSilent ==
    (pc = "done" /\ cur.again /\ first.name = cur.name
        /\ first.res \in {"clean", "mismatch"} /\ Result # "fault")
    => /\ sa.secrets = first.secrets /\ sa.pull = first.pull
       /\ tokens = first.tokens
       /\ glogErrors = 0 /\ handledErrors = 0

\* C4 amended: such a second run leaves the lists and the tokens of the first
\* run when that one ended without a report or with the report of a UID that
\* does not match; the one error it can report is a UID that does not match,
\* which is reported on every run.
C4_SecondRunRepeatsFirst ==
    (pc = "done" /\ cur.again /\ first.name = cur.name
        /\ first.res \in {"clean", "mismatch"} /\ Result # "fault")
    => /\ sa.secrets = first.secrets /\ sa.pull = first.pull
       /\ tokens = first.tokens
       /\ Result \in {"clean", "mismatch"}
       /\ glogErrors = (IF lastErr = "uid" THEN 1 ELSE 0)
       /\ handledErrors = 0

\* C4 witness: the second run on a secret whose first run repaired the account
\* and deleted the token: nothing left to do, the token not found.
C4_Witness ==
    /\ pc = "done" /\ cur.again /\ first.name = cur.name
    /\ first.res = "clean" /\ Result = "clean"
    /\ BackrefHolds(cur) /\ getRes = "ok" /\ delRes = "notfound"

\* C5: a loop that ends on a conflict has made 10 Gets and 10 Updates with 9
\* sleeps, one between every two attempts, and has reported once; the handler
\* then goes on to its Delete and returns.
C5_BoundedRetry ==
    /\ pc = "update" => (gets = i /\ updates = i - 1 /\ sleeps = i - 1)
    /\ pc = "sleep" => (gets = i /\ updates = i /\ sleeps = i - 1 /\ i < Last)
    /\ (pc = "delete" /\ lastErr = "conflict") =>
          (i = Last /\ gets = Last /\ updates = Last /\ sleeps = Last - 1
             /\ glogErrors = 1)
    /\ (pc = "done" /\ lastErr = "conflict") => glogErrors = 1
    /\ lastErr = "conflict" => pc # "panic"

\* C5 witness: the handler about to return after ten conflicts.
C5_Witness == pc = "done" /\ lastErr = "conflict" /\ glogErrors = 1 /\ deletes = 1

\* C6: a Get that finds no service account ends the repair at once: no Update
\* in that attempt, no sleep, no report; the token is then deleted.
C6_AccountGone ==
    /\ getRes = "notfound" => pc \in {"delete", "done"}
    /\ (pc = "delete" /\ getRes = "notfound") =>
          (lastErr = "nil" /\ glogErrors = 0
             /\ gets = i /\ updates = i - 1 /\ sleeps = i - 1)
    /\ (pc = "done" /\ getRes = "notfound") =>
          /\ glogErrors = 0 /\ deletes = 1
          /\ delRes # "error" => (cur.token \notin tokens /\ handledErrors = 0)

\* C6 witness: the account was gone, the token has been deleted, nothing reported.
C6_Witness ==
    /\ pc = "done" /\ getRes = "notfound" /\ ~sa.exists
    /\ delRes = "ok" /\ cur.token \notin tokens
    /\ glogErrors = 0 /\ handledErrors = 0

\* C7: the Delete of the token never changes the service account; a not-found
\* answer is not reported, any other error is reported once.
C7_BestEffortCascade ==
    [][ (pc = "delete" /\ pc' = "done") =>
          /\ sa' = sa
          /\ glogErrors' = glogErrors
          /\ delRes' = "notfound" => (handledErrors' = 0 /\ tokens' = tokens)
          /\ delRes' = "ok" => handledErrors' = 0
          /\ delRes' = "error" => (handledErrors' = 1 /\ tokens' = tokens)
      ]_vars

\* C7 witness: the token was already absent when the handler deleted it.
C7_Witness ==
    /\ pc = "done" /\ delRes = "notfound" /\ handledErrors = 0 /\ glogErrors = 0
    /\ cur.token \notin tokens /\ deletes = 1

\* C8: no stop channel is closed twice, at most one is open, e.stopChan is the
\* open one, and one is open exactly when the last call was Run().
C8_RunStopIdempotent ==
    /\ \A c \in 1..Len(chans) : chans[c] <= 1
    /\ Cardinality({c \in 1..Len(chans) : chans[c] = 0}) <= 1
    /\ stopChan # 0 => (stopChan \in 1..Len(chans) /\ chans[stopChan] = 0)
    /\ stopChan = 0 => \A c \in 1..Len(chans) : chans[c] = 1
    /\ (lastCall = "Run") = (stopChan # 0)
    /\ lastCall = "none" => chans = <<>>

\* C8 witness: started, stopped and started again: one channel closed once,
\* one open.
C8_Witness ==
    /\ Len(chans) = 2 /\ chans[1] = 1 /\ chans[2] = 0
    /\ stopChan = 2 /\ lastCall = "Run"

\* C9 as stated: once Stop() has been called the retry loop does not go round
\* again after its sleep.
C9_StopAbortsRetry ==
    [][ (~Running /\ pc = "sleep") => pc' # "get" ]_vars

\* C9 amended: Stop() leaves the handler where it is, and the retry loop goes
\* round again after every sleep, stopped or not, up to the tenth attempt.
C9_StopDoesNotAbortRetry ==
    [][ /\ (lastCall' = "Stop" /\ stopChan' # stopChan) => UNCHANGED handlerVars
        /\ (~Running /\ pc = "sleep" /\ pc' # "sleep") =>
              (pc' = "get" /\ i' = i + 1 /\ i' <= Last)
      ]_vars

\* C9 witness: the controller is stopped and the loop is at its tenth attempt.
C9_Witness == ~Running /\ pc = "get" /\ i = Last /\ sleeps = Last - 1

\* C10 as stated: a fetched account whose UID is not the recorded one is no
\* error: nothing is reported for the event.
C10_MismatchNotReported ==
    lastErr = "uid" => glogErrors = 0

\* C10 amended: a fetched account whose UID is not the recorded one ends the
\* repair without an Update and without a retry, is reported once as an error,
\* and the token is then deleted.
C10_MismatchReportedOnce ==
    /\ lastErr = "uid" => (pc \in {"delete", "done"} /\ getRes = "ok" /\ glogErrors = 1)
    /\ (pc = "delete" /\ lastErr = "uid") =>
          (gets = i /\ updates = i - 1 /\ sleeps = i - 1)
    /\ (pc = "done" /\ lastErr = "uid") =>
          /\ deletes = 1
          /\ delRes # "error" => cur.token \notin tokens

\* C10 witness: the mismatch was reported and the token has been deleted.
C10_Witness ==
    /\ pc = "done" /\ lastErr = "uid" /\ glogErrors = 1
    /\ delRes = "ok" /\ cur.token \notin tokens /\ sa.exists

\* C11 as stated: the handler of a managed event whose secret records no
\* account name or no account UID makes no Get and no Update, reports nothing
\* and goes on to delete the token.
C11_NoBackrefSkipsRepair ==
    [][ (pc = "get" /\ NoBackref(cur)) =>
          /\ pc' = "delete"
          /\ gets' = gets /\ updates' = updates /\ glogErrors' = glogErrors
      ]_vars

\* C12: the event of an object that is not a secret, or of a secret without
\* the token-name annotation, is dropped in one step: no Get, no Update, no
\* Delete, no report, the service account, its version and the tokens as they
\* were; the handler only ever works on an object that is a secret carrying
\* the annotation.
C12_UnmanagedIgnored ==
    [][ /\ (pc = "idle" /\ queue # <<>> /\ queue' = Tail(queue)
              /\ (~Head(queue).isSecret \/ ~Head(queue).hasTok)) =>
             /\ pc' = "idle" /\ cur' = NoEvent
             /\ UNCHANGED <<sa, stale, tokens>>
             /\ UNCHANGED <<gets, updates, deletes, sleeps, glogErrors, handledErrors>>
             /\ handled'[Head(queue).name].res = "ignored"
        /\ pc' # "idle" => (cur'.isSecret /\ cur'.hasTok)
      ]_vars

\* C12 witness: both secrets were deleted, the event of each was ignored, and
\* the account and the tokens are as they started.
C12_Witness ==
    /\ pc = "idle" /\ queue = <<>> /\ deleted = Names
    /\ \A n \in Names : handled[n].res = "ignored"
    /\ tokens = TokenNames
    /\ sa.exists /\ sa.uid = 1 /\ <<sa.secrets, sa.pull>> \in InitLists
    /\ gets = 0 /\ updates = 0 /\ deletes = 0 /\ glogErrors = 0 /\ handledErrors = 0

\* C13: an Update that succeeds takes from the lists as they are stored at
\* that moment, whatever other writers added since the Get, the references
\* named after the deleted secret and nothing else; an Update made after
\* another writer wrote is rejected and stores nothing, and after a conflict
\* short of the tenth attempt the loop sleeps and fetches again.
C13_ConcurrentAddsKept ==
    [][ (pc = "update" /\ updates' = updates + 1) =>
          LET Other(r) == r # cur.name
          IN  /\ lastErr' = "nil" =>
                   /\ sa'.secrets = SelectSeq(sa.secrets, Other)
                   /\ sa'.pull = SelectSeq(sa.pull, Other)
              /\ stale => (sa' = sa /\ lastErr' # "nil")
              /\ lastErr' # "nil" => sa' = sa
              /\ (lastErr' = "conflict" /\ i < Last) => pc' = "sleep"
      ]_vars

\* C13 witness: the account started with secrets [d1,d1], pull [d2]; the first
\* Update for d1 met a conflict, the second succeeded, and the reference to d2
\* another writer added to secrets is stored.
C13_Witness ==
    /\ pc = "delete" /\ cur.name = "d1" /\ lastErr = "nil"
    /\ i = 2 /\ gets = 2 /\ updates = 2 /\ sleeps = 1
    /\ sa.exists /\ sa.uid = 1
    /\ sa.secrets = <<"d2">> /\ sa.pull = <<"d2">>

\* C14: the handler comes to an Update only from the Get of the same attempt,
\* answered with an account whose UID is the recorded one, and the object it
\* sends is that answer with the secret's references filtered out; the i-th
\* Update follows the i-th Get, and the fetched copy is dropped with the
\* Update's answer, so that after a conflict nothing is left to send again.
C14_FreshReadEveryAttempt ==
    [][ LET Other(r) == r # cur.name
        IN  /\ (pc' = "update" /\ pc # "update") =>
                 /\ pc = "get" /\ gets' = gets + 1 /\ getRes' = "ok"
                 /\ sa.exists /\ sa.uid = cur.saUID
                 /\ obj'.uid = sa.uid
                 /\ obj'.secrets = SelectSeq(sa.secrets, Other)
                 /\ obj'.pull = SelectSeq(sa.pull, Other)
                 /\ orig' = [secrets |-> sa.secrets, pull |-> sa.pull]
                 /\ gets' = i /\ updates = i - 1
            /\ (pc = "update" /\ updates' = updates + 1) =>
                 /\ gets = i /\ updates' = i
                 /\ obj' = NoObj /\ orig' = NoLists
            /\ pc = "sleep" => (lastErr = "conflict" /\ obj = NoObj)
            /\ (pc = "sleep" /\ pc' # "sleep") => (pc' = "get" /\ obj' = NoObj)
      ]_vars

\* C14 witness: two conflicts behind it, the handler holds for its third
\* Update the account as fetched by its third Get, with the reference another
\* writer added meanwhile.
C14_Witness ==
    /\ pc = "update" /\ i = 3 /\ gets = 3 /\ updates = 2 /\ lastErr = "conflict"
    /\ ~stale /\ cur.name = "d1" /\ obj.uid = cur.saUID
    /\ orig.secrets = <<"d1", "d1", "d2">> /\ sa.secrets = orig.secrets
    /\ obj.secrets = <<"d2">>

\* C15 as stated: while the handler of a managed event is at its repair (Get,
\* Update, sleep) or about to delete, no Delete has been issued for the event;
\* once it has left the repair for good, however the repair ended, it has
\* issued exactly one.
C15_TokenDeletedExactlyOnce ==
    /\ pc \in {"get", "update", "sleep", "delete"} => deletes = 0
    /\ pc \in {"done", "panic"} => deletes = 1

\* C16 as stated: an event whose repair ended on a store error that is neither
\* not-found nor a conflict was given exactly one attempt.
C16_OtherErrorAfterOneAttempt ==
    (pc = "delete" /\ lastErr = "error") => (i = 1 /\ gets = 1 /\ sleeps = 0)

\* C16 amended: a Get or an Update the store fails with an error that is neither
\* not-found nor a conflict ends the repair in that attempt: it is reported
\* once, the loop neither sleeps nor goes round again, the attempt stores
\* nothing, and no attempt of the event before it stored anything; the handler
\* goes on to its Delete and returns, after which the next event can be taken.
\* The attempts made before it, each ended by a conflict, stay made.
C16_OtherErrorNotRetried ==
    [][ /\ ((gets' = gets + 1 \/ updates' = updates + 1) /\ lastErr' = "error") =>
             /\ pc' = "delete" /\ glogErrors' = glogErrors + 1
             /\ sa' = sa /\ i' = i /\ sleeps' = sleeps
        /\ lastErr = "error" =>
             /\ pc \in {"delete", "done"} /\ glogErrors = 1
             /\ gets' = gets \/ gets' = 0
             /\ updates' = updates \/ updates' = 0
             /\ pc' \in {pc, "done", "idle"}
        /\ (pc = "update" /\ updates' = updates + 1 /\ sa' # sa) =>
             (lastErr' = "nil" /\ pc' = "delete")
        /\ (pc = "sleep" /\ pc' # pc) => lastErr = "conflict"
        /\ (pc = "done" /\ lastErr = "error") => ENABLED secretDeleted_Return
      ]_vars

\* C16 witness: after two conflicts the third Get of the event failed; it was
\* reported once, the account still names the secret, and the handler is about
\* to delete the token.
C16_Witness ==
    /\ pc = "delete" /\ lastErr = "error" /\ getRes = "error" /\ glogErrors = 1
    /\ i = 3 /\ gets = 3 /\ updates = 2 /\ sleeps = 2
    /\ sa.exists /\ Refers(sa.secrets, cur.name)

\* C17: a Get answered with the recorded account, neither list of which holds
\* a reference named after the deleted secret, ends the repair without an
\* Update and without a report; that step and the Delete that follows leave
\* the stored account and its version as they were.
C17_NoChangeNoUpdate ==
    [][ /\ (pc = "get" /\ gets' = gets + 1 /\ getRes' = "ok" /\ sa.uid = cur.saUID
              /\ ~Refers(sa.secrets, cur.name) /\ ~Refers(sa.pull, cur.name)) =>
             /\ pc' = "delete" /\ lastErr' = "nil"
             /\ updates' = updates /\ glogErrors' = glogErrors
             /\ sa' = sa /\ stale' = stale /\ obj' = NoObj
        /\ (pc = "delete" /\ pc' = "done") => (sa' = sa /\ stale' = stale)
        /\ (pc = "update" /\ updates' = updates + 1) =>
             (Refers(orig.secrets, cur.name) \/ Refers(orig.pull, cur.name))
      ]_vars

\* C17 witness: the event of a secret the account does not name, handled in
\* one attempt: one Get, no Update, nothing reported.
C17_Witness ==
    /\ pc = "delete" /\ getRes = "ok" /\ lastErr = "nil"
    /\ i = 1 /\ gets = 1 /\ updates = 0 /\ glogErrors = 0
    /\ BackrefHolds(cur) /\ NoRefTo(cur.name)
    /\ sa.secrets # <<>>

\* The steps the handler of one event can still take, at most.
Rank ==
    CASE pc = "get" -> 3 * (Last - i) + 5
      [] pc = "update" -> 3 * (Last - i) + 4
      [] pc = "sleep" -> 3 * (Last - i) + 3
      [] pc = "delete" -> 2
      [] pc = "done" -> 1
      [] OTHER -> 0

\* C18: whatever the store answers, the handler of one event makes at most 10
\* Gets, 10 Updates and 1 Delete; it sleeps and goes round again only after a
\* conflict and only before the tenth attempt; every step it takes brings
\* its end nearer, so that it ends within 32 steps.
C18_EventTerminatesWithinBounds ==
    [][ /\ i <= Last /\ gets <= Last /\ updates <= Last /\ sleeps <= Last - 1
        /\ deletes <= 1
        /\ gets' <= gets + 1 /\ updates' <= updates + 1 /\ deletes' <= deletes + 1
        /\ pc = "sleep" => (lastErr = "conflict" /\ i < Last)
        /\ (pc = "get" /\ i > 1) => (lastErr = "conflict" /\ sleeps = i - 1)
        /\ pc \in {"get", "update", "sleep", "delete", "done"} =>
             /\ Rank <= 3 * Last + 2
             /\ pc' # pc => Rank' < Rank
      ]_vars

\* C18 witness: nine conflicts and an error of another kind on the tenth
\* Update: ten Gets, ten Updates, nine sleeps, the Delete still to come.
C18_Witness ==
    /\ pc = "delete" /\ i = Last /\ gets = Last /\ updates = Last /\ sleeps = Last - 1
    /\ lastErr = "error" /\ deletes = 0

\* The Build informers cache.NewSharedIndexInformer has made.
BuildInformers ==
    {a \in 1..Len(heap) : heap[a].kind = "informer" /\ heap[a].of = "Build"}

\* C19: however the calls of Informer(), Indexer() and Lister() interleave,
\* at most one Build informer is ever made; the factory's map holds it from
\* the moment it is stored and never another, and the informer of another
\* type is left alone; only the holder of the lock reads or writes the map;
\* every call returns that informer, or its indexer, or a lister over its
\* indexer.
C19_OneBuildInformer ==
    [][ /\ Cardinality(BuildInformers) <= 1
        /\ informers["Build"] # 0 =>
             /\ informers["Build"] \in BuildInformers
             /\ informers'["Build"] = informers["Build"]
        /\ informers'["Other"] = informers["Other"]
        /\ \A c \in Callers :
             /\ callers[c].pc \in {"lookup", "new", "store", "return"} => lock = c
             /\ (callers[c].pc = "return" /\ callers'[c].pc = "idle") =>
                  LET r == callers'[c].ret
                      stored == informers'["Build"]
                  IN  /\ stored # 0
                      /\ callers[c].call = "Informer" =>
                            (r.kind = "informer" /\ r.at = stored)
                      /\ callers[c].call = "Indexer" =>
                            (r.kind = "indexer" /\ r.at = heap[stored].indexer)
                      /\ callers[c].call = "Lister" =>
                            (r.kind = "lister" /\ r.at = heap[stored].indexer)
             /\ callers[c].calls > 0 =>
                  callers[c].ret.at =
                      IF callers[c].ret.kind = "informer" THEN informers["Build"]
                      ELSE heap[informers["Build"]].indexer
      ]_vars

\* C19 witness: one Build informer was made, beside the informer of another
\* type; an Informer() and a Lister() call have returned it and its indexer,
\* and an Indexer() call, holding the lock, has found it in the map.
C19_Witness ==
    /\ Cardinality(BuildInformers) = 1
    /\ informers["Other"] = 2 /\ informers["Build"] = 4
    /\ callers[1].pc = "idle" /\ callers[1].calls = MaxCalls
    /\ callers[1].ret = [kind |-> "informer", at |-> 4]
    /\ callers[2].calls = 1 /\ callers[2].ret = [kind |-> "lister", at |-> 3]
    /\ callers[2].pc = "return" /\ callers[2].call = "Indexer"
    /\ callers[2].informer = 4 /\ lock = 2

\* C20: a call of Update that returns an error before its write leaves the
\* stored DeploymentConfig as it is: a lookup that fails, whatever its error,
\* is answered with a not-found of the scale; an UpdatedObject that fails
\* with its error; an object that is not a Scale with a bad request; a Scale
\* with invalid metadata or a negative replica count with invalid.  The call
\* changes the stored config only in the step that succeeds, and then only
\* its replica count, to the replica count of the Scale.
C20_ScaleUpdateFrame ==
    [][ /\ (req.pc = "get" /\ req'.pc = "done") =>
             (req'.err = "NotFound(scale)" /\ ~req'.ret /\ dc' = dc)
        /\ (req.pc = "get" /\ req'.pc = "updated") => dc.exists
        /\ (req.pc = "updated" /\ req'.pc # "updated") =>
             LET o == req'.obj
             IN  /\ dc' = dc
                 /\ o.fails => (req'.pc = "done" /\ req'.err = "UpdatedObject")
                 /\ (~o.fails /\ ~o.isScale) =>
                       (req'.pc = "done" /\ req'.err = "BadRequest")
                 /\ (~o.fails /\ o.isScale /\ (~o.metaOK \/ o.replicas < 0)) =>
                       (req'.pc = "done" /\ req'.err = "Invalid")
                 /\ req'.pc = "write" =>
                       (~o.fails /\ o.isScale /\ o.metaOK /\ o.replicas >= 0)
                 /\ req'.pc = "done" => ~req'.ret
        /\ (req.pc = "write" /\ req'.pc = "done") =>
             IF req'.err = "nil"
             THEN /\ dc' = [dc EXCEPT !.replicas = req.obj.replicas]
                  /\ req'.ret
             ELSE dc' = dc /\ ~req'.ret
        /\ (req' # req /\ dc' # dc) => (req.pc = "write" /\ req'.err = "nil")
      ]_vars

\* C20 witness: a paused config has been scaled to 1 replica by the first
\* call, which succeeded: the replica count is the Scale's, the config is
\* still paused.
C20_Witness ==
    /\ req.pc = "done" /\ req.err = "nil" /\ req.ret
    /\ req.obj.replicas = 1 /\ req.n = 1
    /\ dc = [exists |-> TRUE, replicas |-> 1, paused |-> TRUE]

====
